---------------------------- MODULE Spec2Model ----------------------------
(***************************************************************************)
(* A model of server/lib/mysqlToSQLiteParser.js: the MySQL to SQLite       *)
(* statement translator.  A statement is a sequence of one-character       *)
(* strings.  The regular expressions of the source are kept as syntax      *)
(* trees and run by a backtracking matcher with the semantics of the       *)
(* JavaScript engine (leftmost match, alternatives in order, greedy and    *)
(* lazy quantifiers, capture groups, the g and i flags).                   *)
(***************************************************************************)
EXTENDS Integers, Sequences, FiniteSets, TLC

VARIABLES mysqlQuery, sqliteQuery, pc, ruleIdx, lines, lineIdx, indentLevel,
          result, call

vars == <<mysqlQuery, sqliteQuery, pc, ruleIdx, lines, lineIdx, indentLevel,
          result, call>>

(***************************************************************************)
(* Characters and the string primitives of the JavaScript runtime.        *)
(***************************************************************************)
UpperAZ == <<"A","B","C","D","E","F","G","H","I","J","K","L","M","N","O","P","Q","R","S","T","U","V","W","X","Y","Z">>
LowerAZ == <<"a","b","c","d","e","f","g","h","i","j","k","l","m","n","o","p","q","r","s","t","u","v","w","x","y","z">>
Digits == {"0", "1", "2", "3", "4", "5", "6", "7", "8", "9"}
UpperSet == {UpperAZ[k] : k \in 1..Len(UpperAZ)}
LowerSet == {LowerAZ[k] : k \in 1..Len(LowerAZ)}
\* \w of a regular expression
WordChars == UpperSet \cup LowerSet \cup Digits \cup {"_"}
\* \s of a regular expression, and what trim() strips
WhiteSpace == {" ", "\t", "\n", "\r"}
LineTerminators == {"\n", "\r"}

UpperOf == [c \in LowerSet |-> UpperAZ[CHOOSE k \in 1..Len(LowerAZ) : LowerAZ[k] = c]]
LowerOf == [c \in UpperSet |-> LowerAZ[CHOOSE k \in 1..Len(UpperAZ) : UpperAZ[k] = c]]

toUpperChar(c) == IF c \in LowerSet THEN UpperOf[c] ELSE c
toLowerChar(c) == IF c \in UpperSet THEN LowerOf[c] ELSE c

toUpperCase(s) == [k \in 1..Len(s) |-> toUpperChar(s[k])]
toLowerCase(s) == [k \in 1..Len(s) |-> toLowerChar(s[k])]

\* s has the text p at position i (1-based)
HasAt(s, p, i) ==
    /\ i >= 1
    /\ i + Len(p) - 1 <= Len(s)
    /\ \A k \in 1..Len(p) : s[i + k - 1] = p[k]

startsWith(s, p) == HasAt(s, p, 1)
endsWith(s, p) == HasAt(s, p, Len(s) - Len(p) + 1)
includes(s, p) == \E i \in 1..(Len(s) + 1) : HasAt(s, p, i)

Min(S) == CHOOSE x \in S : \A y \in S : x <= y
Max(S) == CHOOSE x \in S : \A y \in S : x >= y
\* the k-th smallest element
Nth(S, k) == CHOOSE x \in S : Cardinality({y \in S : y < x}) = k - 1

\* s.trim(): from the first to the last character that is not white space
trim(s) ==
    LET inked == {i \in 1..Len(s) : s[i] \notin WhiteSpace}
    IN  IF inked = {} THEN << >> ELSE SubSeq(s, Min(inked), Max(inked))

\* s.split(sep) for a one-character separator: always at least one piece
split(s, sep) ==
    LET cuts == {i \in 1..Len(s) : s[i] = sep} \cup {0, Len(s) + 1}
        pieces == {c \in cuts : c <= Len(s)}
    IN  [k \in 1..Cardinality(pieces) |->
            SubSeq(s, Nth(pieces, k) + 1, Min({c \in cuts : c > Nth(pieces, k)}) - 1)]

\* parts.join(sep)
RECURSIVE join(_, _)
join(parts, sep) ==
    IF parts = << >> THEN << >>
    ELSE IF Len(parts) = 1 THEN parts[1]
    ELSE parts[1] \o sep \o join(Tail(parts), sep)

RECURSIVE SelectNonEmpty(_)
SelectNonEmpty(ls) ==
    IF ls = << >> THEN << >>
    ELSE IF Head(ls) = << >> THEN SelectNonEmpty(Tail(ls))
    ELSE <<Head(ls)>> \o SelectNonEmpty(Tail(ls))

\* sql.split('\n').map(line => line.trim()).filter(line => line)
TrimmedLines(sql) ==
    LET raw == split(sql, "\n")
    IN  SelectNonEmpty([k \in 1..Len(raw) |-> trim(raw[k])])

(***************************************************************************)
(* Regular expressions.  A pattern is a sequence of nodes:                 *)
(*   Lit(s)        the text s                                              *)
(*   Rep(c, n, g)  the class c, n or more times (greedy iff g)             *)
(*   Opt(c)        the class c, at most once (greedy)                      *)
(*   WB            \b                                                      *)
(*   Grp(a, k, o)  a group of the alternatives a, capturing as group k     *)
(*                 (0: not capturing), optional iff o                      *)
(* A class is [neg, set]: the characters of set, or all others if neg.     *)
(***************************************************************************)
Cls(set) == [neg |-> FALSE, set |-> set]
NotCls(set) == [neg |-> TRUE, set |-> set]
\* . matches anything but a line terminator
Dot == NotCls(LineTerminators)
InClass(c, cls) == (c \in cls.set) # cls.neg

Lit(s) == [t |-> "lit", s |-> s]
Rep(cls, min, greedy) == [t |-> "rep", cls |-> cls, min |-> min, many |-> TRUE, greedy |-> greedy]
Opt(cls) == [t |-> "rep", cls |-> cls, min |-> 0, many |-> FALSE, greedy |-> TRUE]
WB == [t |-> "wb"]
\* $ (without the m flag): the end of the text
End == [t |-> "end"]
Grp(alts, cap, opt) == [t |-> "grp", alts |-> alts, cap |-> cap, opt |-> opt]
Open(k) == [t |-> "open", cap |-> k]
Close(k) == [t |-> "close", cap |-> k]

\* (.*?) as capture group k
LazyArg(k) == Grp(<< <<Rep(Dot, 0, FALSE)>> >>, k, FALSE)
\* (\d+) as capture group k
DigitsArg(k) == Grp(<< <<Rep(Cls(Digits), 1, TRUE)>> >>, k, FALSE)
SpacePlus == Rep(Cls(WhiteSpace), 1, TRUE)
SpaceStar == Rep(Cls(WhiteSpace), 0, TRUE)

MaxGroups == 3
NoCaps == [k \in 1..MaxGroups |-> << >>]
NoStarts == [k \in 1..MaxGroups |-> 0]
NoMatch == [ok |-> FALSE, b |-> 0, e |-> 0, caps |-> NoCaps]

LitAt(p, s, i, ci) ==
    /\ i + Len(p) - 1 <= Len(s)
    /\ \A k \in 1..Len(p) :
          IF ci THEN toUpperChar(s[i + k - 1]) = toUpperChar(p[k])
          ELSE s[i + k - 1] = p[k]

IsWordAt(s, i) == i >= 1 /\ i <= Len(s) /\ s[i] \in WordChars

\* how many characters of the class follow position i (at most one unless many)
Run(cls, s, i, many) ==
    LET stop == Min({j \in i..Len(s) : ~InClass(s[j], cls)} \cup {Len(s) + 1})
    IN  IF many \/ stop - i <= 1 THEN stop - i ELSE 1

RECURSIVE Match(_, _, _, _, _)
RECURSIVE TryRep(_, _, _, _, _, _, _)
RECURSIVE TryAlts(_, _, _, _, _, _, _)

\* The first way, in the engine's backtracking order, in which the nodes
\* match s from position i on; st holds the groups captured so far.
Match(nodes, s, i, st, ci) ==
    IF nodes = << >> THEN [ok |-> TRUE, b |-> 0, e |-> i, caps |-> st.caps]
    ELSE LET n == Head(nodes)
             rest == Tail(nodes)
         IN  CASE n.t = "lit" ->
                    IF LitAt(n.s, s, i, ci)
                    THEN Match(rest, s, i + Len(n.s), st, ci)
                    ELSE NoMatch
               [] n.t = "wb" ->
                    IF IsWordAt(s, i - 1) # IsWordAt(s, i)
                    THEN Match(rest, s, i, st, ci)
                    ELSE NoMatch
               [] n.t = "rep" ->
                    LET m == Run(n.cls, s, i, n.many)
                    IN  IF m < n.min THEN NoMatch
                        ELSE TryRep(n, rest, s, i, st, ci, m)
               [] n.t = "end" ->
                    IF i = Len(s) + 1 THEN Match(rest, s, i, st, ci) ELSE NoMatch
               [] n.t = "grp" -> TryAlts(n, 1, rest, s, i, st, ci)
               [] n.t = "open" ->
                    Match(rest, s, i,
                          [st EXCEPT !.starts[n.cap] = i], ci)
               [] n.t = "close" ->
                    Match(rest, s, i,
                          [st EXCEPT !.caps[n.cap] =
                                        SubSeq(s, st.starts[n.cap], i - 1)], ci)

\* a repetition of n.min to m characters: the longest (greedy) or the
\* shortest (lazy) after which the rest matches
TryRep(n, rest, s, i, st, ci, m) ==
    LET ks == {k \in n.min..m : Match(rest, s, i + k, st, ci).ok}
    IN  IF ks = {} THEN NoMatch
        ELSE Match(rest, s, i + (IF n.greedy THEN Max(ks) ELSE Min(ks)), st, ci)

TryAlts(n, a, rest, s, i, st, ci) ==
    IF a > Len(n.alts)
    THEN (IF n.opt THEN Match(rest, s, i, st, ci) ELSE NoMatch)
    ELSE LET body == IF n.cap = 0 THEN n.alts[a]
                     ELSE <<Open(n.cap)>> \o n.alts[a] \o <<Close(n.cap)>>
             r == Match(body \o rest, s, i, st, ci)
         IN  IF r.ok THEN r ELSE TryAlts(n, a + 1, rest, s, i, st, ci)

MatchAt(re, s, i, ci) ==
    LET r == Match(re, s, i, [caps |-> NoCaps, starts |-> NoStarts], ci)
    IN  IF r.ok THEN [r EXCEPT !.b = i] ELSE NoMatch

\* regex.exec from lastIndex = from: the leftmost match
Search(re, s, from, ci) ==
    LET starts == {i \in from..(Len(s) + 1) : MatchAt(re, s, i, ci).ok}
    IN  IF starts = {} THEN NoMatch ELSE MatchAt(re, s, Min(starts), ci)

\* A replacement template is a sequence of pieces: texts, and the
\* references $1, $2, $3 to the groups
Ref1 == <<"$1">>
Ref2 == <<"$2">>
Ref3 == <<"$3">>
GroupRefs == <<Ref1, Ref2, Ref3>>
Expand(tmpl, caps) ==
    join([p \in 1..Len(tmpl) |->
            IF \E k \in 1..MaxGroups : GroupRefs[k] = tmpl[p]
            THEN caps[CHOOSE k \in 1..MaxGroups : GroupRefs[k] = tmpl[p]]
            ELSE tmpl[p]], << >>)

\* the replacement function of the CONCAT rule
ConcatReplacement(caps) == join(split(caps[1], ","), <<" ","|","|"," ">>)

Replacement(rule, caps) ==
    IF rule.fn THEN ConcatReplacement(caps) ELSE Expand(rule.replacement, caps)

\* s.replace(regex, replacement) with the g flag
RECURSIVE ReplaceFrom(_, _, _)
ReplaceFrom(rule, s, from) ==
    LET r == Search(rule.regex, s, from, rule.ci)
    IN  IF ~r.ok THEN SubSeq(s, from, Len(s))
        ELSE IF r.e = r.b
             THEN SubSeq(s, from, r.b - 1) \o Replacement(rule, r.caps)
                  \o SubSeq(s, r.b, r.b) \o ReplaceFrom(rule, s, r.b + 1)
             ELSE SubSeq(s, from, r.b - 1) \o Replacement(rule, r.caps)
                  \o ReplaceFrom(rule, s, r.e)

replace(s, rule) == ReplaceFrom(rule, s, 1)

\* s.replace(regex, replacement) without the g flag: the first match only
replaceFirst(s, rule) ==
    LET r == Search(rule.regex, s, 1, rule.ci)
    IN  IF ~r.ok THEN s
        ELSE SubSeq(s, 1, r.b - 1) \o Replacement(rule, r.caps)
             \o SubSeq(s, r.e, Len(s))

Rule(regex, ci, replacement) ==
    [regex |-> regex, ci |-> ci, fn |-> FALSE, replacement |-> replacement]


\* one alternative per word
OneOf(ws) == [k \in 1..Len(ws) |-> <<Lit(ws[k])>>]

(***************************************************************************)
(* functionMappings, in the order of the source.                           *)
(***************************************************************************)
\* /CONCAT\((.*?)\)/g, replaced by args.split(',').join(' || ')
ConcatRule ==
    [regex |-> <<Lit(<<"C","O","N","C","A","T","(">>), LazyArg(1), Lit(<<")">>)>>, ci |-> FALSE,
     fn |-> TRUE, replacement |-> << >>]
\* /SUBSTRING\((.*?)\)/g
SubstringRule ==
    Rule(<<Lit(<<"S","U","B","S","T","R","I","N","G","(">>), LazyArg(1), Lit(<<")">>)>>, FALSE,
         <<<<"s","u","b","s","t","r","(">>, Ref1, <<")">>>>)
\* /\b(LENGTH|UPPER|LOWER|TRIM|LTRIM|RTRIM|REPLACE)\(/g
StringFnRule ==
    Rule(<<WB, Grp(OneOf(<<<<"L","E","N","G","T","H">>, <<"U","P","P","E","R">>, <<"L","O","W","E","R">>, <<"T","R","I","M">>, <<"L","T","R","I","M">>,
                           <<"R","T","R","I","M">>, <<"R","E","P","L","A","C","E">>>>), 1, FALSE), Lit(<<"(">>)>>,
         FALSE, <<Ref1, <<"(">>>>)
\* /DATE_ADD\((.*?),\s*INTERVAL\s*(\d+)\s*DAY\)/g
DateAddRule ==
    Rule(<<Lit(<<"D","A","T","E","_","A","D","D","(">>), LazyArg(1), Lit(<<",">>), SpaceStar, Lit(<<"I","N","T","E","R","V","A","L">>),
           SpaceStar, DigitsArg(2), SpaceStar, Lit(<<"D","A","Y",")">>)>>, FALSE,
         <<<<"D","A","T","E","T","I","M","E","(">>, Ref1, <<","," ","'","+">>, Ref2, <<" ","D","A","Y","'",")">>>>)
\* /DATE_SUB\((.*?),\s*INTERVAL\s*(\d+)\s*DAY\)/g
DateSubRule ==
    Rule(<<Lit(<<"D","A","T","E","_","S","U","B","(">>), LazyArg(1), Lit(<<",">>), SpaceStar, Lit(<<"I","N","T","E","R","V","A","L">>),
           SpaceStar, DigitsArg(2), SpaceStar, Lit(<<"D","A","Y",")">>)>>, FALSE,
         <<<<"D","A","T","E","T","I","M","E","(">>, Ref1, <<","," ","'","-">>, Ref2, <<" ","D","A","Y","'",")">>>>)
\* /DATEDIFF\((.*?),(.*?)\)/g
DateDiffRule ==
    Rule(<<Lit(<<"D","A","T","E","D","I","F","F","(">>), LazyArg(1), Lit(<<",">>), LazyArg(2), Lit(<<")">>)>>, FALSE,
         <<<<"C","A","S","T","(","(","J","U","L","I","A","N","D","A","Y","(">>, Ref1, <<")"," ","-"," ","J","U","L","I","A","N","D","A","Y","(">>, Ref2, <<")",")"," ","A","S"," ","I","N","T","E","G","E","R",")">>>>)
\* /YEAR\((.*?)\)/g
YearRule ==
    Rule(<<Lit(<<"Y","E","A","R","(">>), LazyArg(1), Lit(<<")">>)>>, FALSE,
         <<<<"C","A","S","T","(","s","t","r","f","t","i","m","e","(","'","%","Y","'",","," ">>, Ref1, <<")"," ","A","S"," ","I","N","T","E","G","E","R",")">>>>)
\* /MONTH\((.*?)\)/g
MonthRule ==
    Rule(<<Lit(<<"M","O","N","T","H","(">>), LazyArg(1), Lit(<<")">>)>>, FALSE,
         <<<<"C","A","S","T","(","s","t","r","f","t","i","m","e","(","'","%","m","'",","," ">>, Ref1, <<")"," ","A","S"," ","I","N","T","E","G","E","R",")">>>>)
\* /DAY\((.*?)\)/g
DayRule ==
    Rule(<<Lit(<<"D","A","Y","(">>), LazyArg(1), Lit(<<")">>)>>, FALSE,
         <<<<"C","A","S","T","(","s","t","r","f","t","i","m","e","(","'","%","d","'",","," ">>, Ref1, <<")"," ","A","S"," ","I","N","T","E","G","E","R",")">>>>)
\* /NOW\(\)/g
NowRule == Rule(<<Lit(<<"N","O","W","(",")">>)>>, FALSE, <<<<"D","A","T","E","T","I","M","E","(","'","n","o","w","'",")">>>>)
\* /CEIL\((.*?)\)/g
CeilRule ==
    Rule(<<Lit(<<"C","E","I","L","(">>), LazyArg(1), Lit(<<")">>)>>, FALSE,
         <<<<"C","A","S","T","(","R","O","U","N","D","(">>, Ref1, <<" ","+"," ","0",".","5",")"," ","A","S"," ","I","N","T","E","G","E","R",")">>>>)
\* /FLOOR\((.*?)\)/g
FloorRule ==
    Rule(<<Lit(<<"F","L","O","O","R","(">>), LazyArg(1), Lit(<<")">>)>>, FALSE,
         <<<<"C","A","S","T","(">>, Ref1, <<" ","A","S"," ","I","N","T","E","G","E","R",")">>>>)
\* /\b(POW|ABS|SQRT)\(/g
MathFnRule ==
    Rule(<<WB, Grp(OneOf(<<<<"P","O","W">>, <<"A","B","S">>, <<"S","Q","R","T">>>>), 1, FALSE), Lit(<<"(">>)>>,
         FALSE, <<Ref1, <<"(">>>>)
\* /MOD\((.*?),(.*?)\)/g
ModRule ==
    Rule(<<Lit(<<"M","O","D","(">>), LazyArg(1), Lit(<<",">>), LazyArg(2), Lit(<<")">>)>>, FALSE,
         <<<<"(">>, Ref1, <<" ","%"," ">>, Ref2, <<")">>>>)
\* /\bRAND\(\)/g
RandRule ==
    Rule(<<WB, Lit(<<"R","A","N","D","(",")">>)>>, FALSE,
         <<<<"(","A","B","S","(","R","A","N","D","O","M","(",")",")"," ","%"," ","1","0","0","0","0","0","0"," ","+"," ","1",")"," ","/"," ","1","0","0","0","0","0","0",".","0">>>>)
\* /IFNULL\((.*?),(.*?)\)/g
IfNullRule ==
    Rule(<<Lit(<<"I","F","N","U","L","L","(">>), LazyArg(1), Lit(<<",">>), LazyArg(2), Lit(<<")">>)>>, FALSE,
         <<<<"C","O","A","L","E","S","C","E","(">>, Ref1, <<","," ">>, Ref2, <<")">>>>)
\* /IF\((.*?),(.*?),(.*?)\)/g
IfRule ==
    Rule(<<Lit(<<"I","F","(">>), LazyArg(1), Lit(<<",">>), LazyArg(2), Lit(<<",">>), LazyArg(3),
           Lit(<<")">>)>>, FALSE,
         <<<<"C","A","S","E"," ","W","H","E","N"," ">>, Ref1, <<" ","T","H","E","N"," ">>, Ref2, <<" ","E","L","S","E"," ">>, Ref3, <<" ","E","N","D">>>>)
\* /NULLIF\((.*?),(.*?)\)/g
NullIfRule ==
    Rule(<<Lit(<<"N","U","L","L","I","F","(">>), LazyArg(1), Lit(<<",">>), LazyArg(2), Lit(<<")">>)>>, FALSE,
         <<<<"C","A","S","E"," ","W","H","E","N"," ">>, Ref1, <<" ","="," ">>, Ref2, <<" ","T","H","E","N"," ","N","U","L","L"," ","E","L","S","E"," ">>, Ref1, <<" ","E","N","D">>>>)
\* /\b(?:TINY|SMALL|MEDIUM|BIG)?INT\(\d+\)/g
IntTypeRule ==
    Rule(<<WB, Grp(OneOf(<<<<"T","I","N","Y">>, <<"S","M","A","L","L">>, <<"M","E","D","I","U","M">>, <<"B","I","G">>>>), 0, TRUE),
           Lit(<<"I","N","T","(">>), Rep(Cls(Digits), 1, TRUE), Lit(<<")">>)>>, FALSE, <<<<"I","N","T","E","G","E","R">>>>)
\* /\b(?:VAR)?CHAR\(\d+\)|TEXT\(\d+\)/g
CharTypeRule ==
    Rule(<<Grp(<< <<WB, Grp(OneOf(<<<<"V","A","R">>>>), 0, TRUE), Lit(<<"C","H","A","R","(">>),
                    Rep(Cls(Digits), 1, TRUE), Lit(<<")">>)>>,
                  <<Lit(<<"T","E","X","T","(">>), Rep(Cls(Digits), 1, TRUE), Lit(<<")">>)>> >>,
               0, FALSE)>>, FALSE, <<<<"T","E","X","T">>>>)
\* /\b(?:DECIMAL|FLOAT|DOUBLE)\(\d+,\d+\)/g
RealTypeRule ==
    Rule(<<WB, Grp(OneOf(<<<<"D","E","C","I","M","A","L">>, <<"F","L","O","A","T">>, <<"D","O","U","B","L","E">>>>), 0, FALSE), Lit(<<"(">>),
           Rep(Cls(Digits), 1, TRUE), Lit(<<",">>), Rep(Cls(Digits), 1, TRUE),
           Lit(<<")">>)>>, FALSE, <<<<"R","E","A","L">>>>)
\* /\bTIMESTAMP\b/g
TimestampRule == Rule(<<WB, Lit(<<"T","I","M","E","S","T","A","M","P">>), WB>>, FALSE, <<<<"D","A","T","E","T","I","M","E">>>>)
\* /\bBINARY\b/g
BinaryRule == Rule(<<WB, Lit(<<"B","I","N","A","R","Y">>), WB>>, FALSE, <<<<"B","L","O","B">>>>)
\* /\b(?:LEFT|RIGHT|FULL)\s+(?:OUTER\s+)?JOIN\b/g
OuterJoinRule ==
    Rule(<<WB, Grp(OneOf(<<<<"L","E","F","T">>, <<"R","I","G","H","T">>, <<"F","U","L","L">>>>), 0, FALSE), SpacePlus,
           Grp(<< <<Lit(<<"O","U","T","E","R">>), SpacePlus>> >>, 0, TRUE), Lit(<<"J","O","I","N">>), WB>>,
         FALSE, <<<<"L","E","F","T"," ","J","O","I","N">>>>)
\* /\bINNER\s+JOIN\b|\bJOIN\b/g
InnerJoinRule ==
    Rule(<<Grp(<< <<WB, Lit(<<"I","N","N","E","R">>), SpacePlus, Lit(<<"J","O","I","N">>), WB>>,
                  <<WB, Lit(<<"J","O","I","N">>), WB>> >>, 0, FALSE)>>, FALSE, <<<<"I","N","N","E","R"," ","J","O","I","N">>>>)
\* /AUTO_?INCREMENT(?:\s+PRIMARY\s+KEY|)/gi
AutoIncrementRule ==
    Rule(<<Lit(<<"A","U","T","O">>), Opt(Cls({"_"})), Lit(<<"I","N","C","R","E","M","E","N","T">>),
           Grp(<< <<SpacePlus, Lit(<<"P","R","I","M","A","R","Y">>), SpacePlus, Lit(<<"K","E","Y">>)>>,
                  << >> >>, 0, FALSE)>>, TRUE, <<<<"P","R","I","M","A","R","Y"," ","K","E","Y"," ","A","U","T","O","I","N","C","R","E","M","E","N","T">>>>)
\* /PRIMARY\s+KEY\s+AUTO_?INCREMENT/gi
PrimaryKeyRule ==
    Rule(<<Lit(<<"P","R","I","M","A","R","Y">>), SpacePlus, Lit(<<"K","E","Y">>), SpacePlus, Lit(<<"A","U","T","O">>),
           Opt(Cls({"_"})), Lit(<<"I","N","C","R","E","M","E","N","T">>)>>, TRUE, <<<<"P","R","I","M","A","R","Y"," ","K","E","Y"," ","A","U","T","O","I","N","C","R","E","M","E","N","T">>>>)

functionMappings ==
    <<ConcatRule, SubstringRule, StringFnRule,
      DateAddRule, DateSubRule, DateDiffRule, YearRule, MonthRule, DayRule, NowRule,
      CeilRule, FloorRule, MathFnRule, ModRule, RandRule,
      IfNullRule, IfRule, NullIfRule,
      IntTypeRule, CharTypeRule, RealTypeRule, TimestampRule, BinaryRule,
      OuterJoinRule, InnerJoinRule,
      AutoIncrementRule, PrimaryKeyRule>>

\* functionMappings.forEach from rule k on
RECURSIVE ApplyMappingsFrom(_, _)
ApplyMappingsFrom(s, k) ==
    IF k > Len(functionMappings) THEN s
    ELSE LET next == replace(s, functionMappings[k])
         IN  \* (the test has the text computed rule by rule)
             IF Len(next) >= 0 THEN ApplyMappingsFrom(next, k + 1) ELSE next

(***************************************************************************)
(* Post-processing fixes.                                                  *)
(***************************************************************************)
\* /ENGINE=\w+|DEFAULT CHARSET=\w+|COLLATE=\w+/g
TableOptionRule ==
    Rule(<<Grp(<< <<Lit(<<"E","N","G","I","N","E","=">>), Rep(Cls(WordChars), 1, TRUE)>>,
                  <<Lit(<<"D","E","F","A","U","L","T"," ","C","H","A","R","S","E","T","=">>), Rep(Cls(WordChars), 1, TRUE)>>,
                  <<Lit(<<"C","O","L","L","A","T","E","=">>), Rep(Cls(WordChars), 1, TRUE)>> >>, 0, FALSE)>>,
         FALSE, << >>)
\* /[ \t]+/g
BlanksRule == Rule(<<Rep(Cls({" ", "\t"}), 1, TRUE)>>, FALSE, <<<<" ">>>>)
\* /\n\s*\n/g
BlankLinesRule == Rule(<<Lit(<<"\n">>), SpaceStar, Lit(<<"\n">>)>>, FALSE, <<<<"\n">>>>)

PostProcess(s) ==
    trim(replace(replace(replace(s, TableOptionRule), BlanksRule), BlankLinesRule))

(***************************************************************************)
(* formatSQL                                                               *)
(***************************************************************************)
\* /\s+/g
SpacesRule == Rule(<<SpacePlus>>, FALSE, <<<<" ">>>>)

\* the test of the source's line 4: keep a simple query on one line
IsSimple(sql) ==
    /\ ~includes(sql, <<"\n">>)
    /\ ~includes(toLowerCase(sql), <<"c","a","s","e"," ","w","h","e","n">>)
    /\ ~includes(toLowerCase(sql), <<"g","r","o","u","p"," ","b","y">>)

ClauseKeywords == {<<"F","R","O","M">>, <<"W","H","E","R","E">>, <<"G","R","O","U","P"," ","B","Y">>, <<"H","A","V","I","N","G">>, <<"O","R","D","E","R"," ","B","Y">>, <<"L","I","M","I","T">>}

IsClauseLine(line) == \E kw \in ClauseKeywords : startsWith(toUpperCase(line), kw)
IsSelectLine(line) == startsWith(toUpperCase(line), <<"S","E","L","E","C","T">>)

RECURSIVE repeat(_, _)
repeat(s, n) == IF n <= 0 THEN << >> ELSE s \o repeat(s, n - 1)

\* the indentation level a line is emitted at
LevelAt(line, level) == IF IsClauseLine(line) THEN 0 ELSE level
EmitLine(line, level) == repeat(<<" "," "," "," ">>, LevelAt(line, level)) \o line
\* (a SELECT line nesting one level deeper each time)
LevelAfterNested(line, level) ==
    IF IsSelectLine(line) THEN LevelAt(line, level) + 1 ELSE LevelAt(line, level)
\* the indentation level for the next line
LevelAfter(line, level) == IF IsSelectLine(line) THEN 1 ELSE LevelAt(line, level)

RECURSIVE FormatLines(_, _, _)
FormatLines(ls, k, level) ==
    IF k > Len(ls) THEN << >>
    ELSE <<EmitLine(ls[k], level)>> \o FormatLines(ls, k + 1, LevelAfter(ls[k], level))

formatSQL(sql) ==
    IF IsSimple(sql) THEN trim(replace(sql, SpacesRule))
    ELSE join(FormatLines(TrimmedLines(sql), 1, 0), <<"\n">>)

(***************************************************************************)
(* formatCreateTable: [threw, value]; threw when line.match(...) is null   *)
(* and the source indexes it.                                              *)
(***************************************************************************)
\* /CREATE TABLE\s+(\w+)/
TableNameRegex ==
    <<Lit(<<"C","R","E","A","T","E"," ","T","A","B","L","E">>), SpacePlus,
      Grp(<< <<Rep(Cls(WordChars), 1, TRUE)>> >>, 1, FALSE)>>
\* /,\s*$/
TrailingCommaRule == Rule(<<Lit(<<",">>), SpaceStar, End>>, FALSE, << >>)

indexOf(ls, x) == CHOOSE k \in 1..Len(ls) : ls[k] = x /\ \A j \in 1..(k - 1) : ls[j] # x

IsClosingLine(line) == endsWith(line, <<")",";">>) \/ line = <<")",";">> \/ line = <<")">>

IsLastColumn(ls, line) ==
    ~\E j \in (indexOf(ls, line) + 1)..Len(ls) : ~startsWith(ls[j], <<")">>)

ColumnLine(ls, line) ==
    <<" "," "," "," ">> \o replaceFirst(line, TrailingCommaRule)
    \o (IF IsLastColumn(ls, line) THEN << >> ELSE <<",">>)

RECURSIVE CreateTableLines(_, _, _, _)
CreateTableLines(ls, k, inColumns, acc) ==
    IF k > Len(ls) THEN [threw |-> FALSE, value |-> acc]
    ELSE LET line == ls[k]
         IN  IF startsWith(line, <<"C","R","E","A","T","E"," ","T","A","B","L","E">>)
             THEN LET m == Search(TableNameRegex, line, 1, FALSE)
                  IN  IF ~m.ok THEN [threw |-> TRUE, value |-> acc]
                      ELSE CreateTableLines(ls, k + 1, TRUE,
                               Append(acc, <<"C","R","E","A","T","E"," ","T","A","B","L","E"," ">> \o m.caps[1] \o <<" ","(">>))
             ELSE IF IsClosingLine(line)
             THEN CreateTableLines(ls, k + 1, FALSE, Append(acc, <<" "," "," "," ",")",";">>))
             ELSE IF inColumns
             THEN CreateTableLines(ls, k + 1, inColumns, Append(acc, ColumnLine(ls, line)))
             ELSE CreateTableLines(ls, k + 1, inColumns, Append(acc, line))

formatCreateTable(sql) ==
    LET r == CreateTableLines(TrimmedLines(sql), 1, FALSE, << >>)
    IN  [threw |-> r.threw, value |-> join(r.value, <<"\n">>)]

(***************************************************************************)
(* handleGroupConcat                                                       *)
(***************************************************************************)
\* /GROUP_CONCAT\((DISTINCT\s+)?([^)]+)\)/gi
GroupConcatDistinctRule ==
    Rule(<<Lit(<<"G","R","O","U","P","_","C","O","N","C","A","T","(">>), Grp(<< <<Lit(<<"D","I","S","T","I","N","C","T">>), SpacePlus>> >>, 1, TRUE),
           Grp(<< <<Rep(NotCls({")"}), 1, TRUE)>> >>, 2, FALSE), Lit(<<")">>)>>, TRUE,
         <<<<"G","R","O","U","P","_","C","O","N","C","A","T","(">>, Ref1, Ref2, <<")">>>>)
\* /GROUP_CONCAT\(([^)]+\.[^)]+)\)/gi
GroupConcatDotRule ==
    Rule(<<Lit(<<"G","R","O","U","P","_","C","O","N","C","A","T","(">>),
           Grp(<< <<Rep(NotCls({")"}), 1, TRUE), Lit(<<".">>),
                    Rep(NotCls({")"}), 1, TRUE)>> >>, 1, FALSE), Lit(<<")">>)>>, TRUE,
         <<<<"G","R","O","U","P","_","C","O","N","C","A","T","(">>, Ref1, <<")">>>>)

handleGroupConcat(sql) ==
    replace(replace(sql, GroupConcatDistinctRule), GroupConcatDotRule)

(***************************************************************************)
(* mysqlToSQLiteParser                                                     *)
(***************************************************************************)
IsCreateTable(s) == startsWith(toLowerCase(s), <<"c","r","e","a","t","e"," ","t","a","b","l","e">>)
HasGroupConcat(s) == includes(toLowerCase(s), <<"g","r","o","u","p","_","c","o","n","c","a","t">>)

\* /WITH ROLLUP/g
RollupRule == Rule(<<Lit(<<"W","I","T","H"," ","R","O","L","L","U","P">>)>>, FALSE, <<<<"/","*"," ","W","I","T","H"," ","R","O","L","L","U","P"," ","n","o","t"," ","s","u","p","p","o","r","t","e","d"," ","*","/">>>>)

RollupWarning(s) ==
    IF includes(s, <<"W","I","T","H"," ","R","O","L","L","U","P">>) THEN replace(s, RollupRule) ELSE s

\* the whole call: [threw, value]
mysqlToSQLiteParser(q) ==
    LET cleaned == PostProcess(ApplyMappingsFrom(q, 1))
        formatted == IF IsCreateTable(cleaned) THEN formatCreateTable(cleaned)
                     ELSE IF HasGroupConcat(cleaned)
                     THEN [threw |-> FALSE, value |-> handleGroupConcat(cleaned)]
                     ELSE [threw |-> FALSE, value |-> formatSQL(cleaned)]
    IN  IF formatted.threw THEN formatted
        ELSE [threw |-> FALSE, value |-> RollupWarning(formatted.value)]

(***************************************************************************)
(* The statements the translator is called with.                          *)
(***************************************************************************)
MaxLines == 3
MaxColumns == 2
MaxCalls == 2

\* joins
JoinKeywords ==
    {<<"L","E","F","T"," ","J","O","I","N">>, <<"R","I","G","H","T"," ","J","O","I","N">>, <<"F","U","L","L"," ","J","O","I","N">>, <<"L","E","F","T"," ","O","U","T","E","R"," ","J","O","I","N">>,
     <<"R","I","G","H","T"," ","O","U","T","E","R"," ","J","O","I","N">>, <<"F","U","L","L"," "," ","O","U","T","E","R"," ","J","O","I","N">>, <<"J","O","I","N">>, <<"I","N","N","E","R"," ","J","O","I","N">>}
JoinStatement(j) == <<"S","E","L","E","C","T"," ","*"," ","F","R","O","M"," ","a"," ">> \o j \o <<" ","b"," ","O","N"," ","a",".","i","d"," ","="," ","b",".","i","d">>
JoinStatements == {JoinStatement(j) : j \in JoinKeywords}

\* one-line queries of one expression
ConcatArgLists ==
    {<<<<"x">>>>, <<<<"a">>, <<"'"," ","'">>, <<"b">>>>, <<<<"a">>, <<"b">>, <<"c">>>>,
     <<<<"a">>, <<"'",","," ","'">>, <<"b">>>>, <<<<"U","P","P","E","R","(","a",")">>, <<"b">>>>}
ConcatCall(args) == <<"C","O","N","C","A","T","(">> \o join(args, <<",">>) \o <<")">>
Expressions ==
    {ConcatCall(args) : args \in ConcatArgLists}
    \cup
    {<<"a",","," ","b">>, <<"C","O","N","C","A","T","(","a",","," ","b",")">>, <<"G","R","O","U","P","_","C","O","N","C","A","T","(","D","I","S","T","I","N","C","T"," ","a",".","b",")">>, <<"g","r","o","u","p","_","c","o","n","c","a","t","(","a",".","b",")">>,
     <<"S","U","B","S","T","R","I","N","G","(","a",",","1",",","2",")">>, <<"L","E","N","G","T","H","(","a",")">>, <<"D","A","T","E","_","A","D","D","(","d",","," ","I","N","T","E","R","V","A","L"," ","7"," ","D","A","Y",")">>,
     <<"D","A","T","E","_","S","U","B","(","d",",","I","N","T","E","R","V","A","L"," ","1"," ","D","A","Y",")">>, <<"D","A","T","E","D","I","F","F","(","a",",","b",")">>, <<"Y","E","A","R","(","d",")">>, <<"M","O","N","T","H","(","d",")">>,
     <<"D","A","Y","(","d",")">>, <<"N","O","W","(",")">>, <<"C","E","I","L","(","x",")">>, <<"F","L","O","O","R","(","x",")">>, <<"A","B","S","(","x",")">>, <<"M","O","D","(","a",",","2",")">>,
     <<"R","A","N","D","(",")">>, <<"I","F","N","U","L","L","(","x",",","0",")">>, <<"I","F","(","a",",","b",",","c",")">>, <<"N","U","L","L","I","F","(","a",",","b",")">>,
     <<"C","A","S","T","(","x"," ","A","S"," ","B","I","N","A","R","Y",")">>, <<"C","A","S","T","(","x"," ","A","S"," ","C","H","A","R","(","1","0",")",")">>, <<"C","A","S","T","(","x"," ","A","S"," ","D","E","C","I","M","A","L","(","1","0",",","2",")",")">>,
     <<"C","A","S","T","(","x"," ","A","S"," ","B","I","G","I","N","T","(","2","0",")",")">>, <<"C","A","S","T","(","x"," ","A","S"," ","T","I","M","E","S","T","A","M","P",")">>,
     <<"B","I","R","T","H","D","A","Y","(","x",")">>, <<"L","E","A","P","Y","E","A","R","(","x",")">>, <<"N","O","T","I","F","(","a",",","b",",","c",")">>, <<"M","Y","C","O","N","C","A","T","(","a",",","b",")">>,
     <<"C","A","S","E"," ","W","H","E","N"," ","a"," ","T","H","E","N"," ","b"," ","E","N","D">>}
Tails == {<< >>, <<" ","G","R","O","U","P"," ","B","Y"," ","a"," ","W","I","T","H"," ","R","O","L","L","U","P">>}
SelectStatement(e, tl) == <<"S","E","L","E","C","T"," ">> \o e \o <<" ","F","R","O","M"," ","t">> \o tl
SelectStatements == {SelectStatement(e, tl) : e \in Expressions, tl \in Tails}

\* table definitions, on one line or one definition per line
PlainHeaders == {<<"C","R","E","A","T","E"," ","T","A","B","L","E"," ","u","s","e","r","s">>, <<"c","r","e","a","t","e"," ","t","a","b","l","e"," ","u","s","e","r","s">>}
Headers == PlainHeaders \cup {<<"C","R","E","A","T","E"," ","T","A","B","L","E"," ","\"","u","s","e","r","s","\"">>, <<"C","R","E","A","T","E"," ","T","A","B","L","E">>}
AutoIncrementPairs ==
    {<<<<"A","U","T","O","_","I","N","C","R","E","M","E","N","T"," ","P","R","I","M","A","R","Y"," ","K","E","Y">>, <<"P","R","I","M","A","R","Y"," ","K","E","Y"," ","A","U","T","O","_","I","N","C","R","E","M","E","N","T">>>>,
     <<<<"a","u","t","o","_","i","n","c","r","e","m","e","n","t"," ","p","r","i","m","a","r","y"," ","k","e","y">>, <<"p","r","i","m","a","r","y"," ","k","e","y"," ","a","u","t","o","_","i","n","c","r","e","m","e","n","t">>>>}
PlainId == <<"i","d"," ","I","N","T","E","G","E","R">>
AutoIncrementId(form) == PlainId \o <<" ">> \o form
IdColumns ==
    {PlainId} \cup {AutoIncrementId(pr[k]) : pr \in AutoIncrementPairs, k \in {1, 2}}
MoreColumns == <<<<"n","a","m","e"," ","T","E","X","T">>, <<"U","N","I","Q","U","E"," ","(","n","a","m","e",")">>, <<"a","g","e"," ","I","N","T","E","G","E","R">>, <<"c","i","t","y"," ","T","E","X","T">>>>
Closings == {<<")",";">>, <<")"," ","E","N","G","I","N","E","=","I","n","n","o","D","B"," ","D","E","F","A","U","L","T"," ","C","H","A","R","S","E","T","=","u","t","f","8",";">>}

ColumnsOf(id, n) == <<id>> \o SubSeq(MoreColumns, 1, n - 1)
OneLine(h, cols, c) == h \o <<" ","(">> \o join(cols, <<","," ">>) \o c
MultiLine(h, cols, c) == h \o <<" ","(","\n"," "," ">> \o join(cols, <<",","\n"," "," ">>) \o <<"\n">> \o c

CreateStatements ==
    {OneLine(h, ColumnsOf(id, n), c) :
        h \in Headers, id \in IdColumns, n \in 1..MaxColumns, c \in Closings}
    \cup
    {MultiLine(h, ColumnsOf(id, n), c) :
        h \in Headers, id \in IdColumns, n \in 1..MaxColumns, c \in Closings}
    \cup
    {<<"C","R","E","A","T","E"," ","T","A","B","L","E"," ","s"," ","A","S"," ","S","E","L","E","C","T"," ","a"," ","F","R","O","M"," ","t"," ","G","R","O","U","P"," ","B","Y"," ","a"," ","W","I","T","H"," ","R","O","L","L","U","P">>,
     <<"C","R","E","A","T","E"," ","T","A","B","L","E"," ","s"," ","A","S","\n","S","E","L","E","C","T"," ","a","\n","F","R","O","M"," ","t","\n","G","R","O","U","P"," ","B","Y"," ","a"," ","W","I","T","H"," ","R","O","L","L","U","P">>}

\* queries of several lines
QueryLines == {<<"S","E","L","E","C","T"," ","a",",">>, <<" "," ","b">>, <<"F","R","O","M"," ","t">>, << >>}
RECURSIVE LineSeqs(_)
LineSeqs(n) ==
    IF n = 0 THEN {<< >>}
    ELSE {Append(ls, l) : ls \in LineSeqs(n - 1), l \in QueryLines}
MultiLineStatements ==
    {join(ls, <<"\n">>) : ls \in UNION {LineSeqs(n) : n \in 2..MaxLines}}
    \cup
    {<<"S","E","L","E","C","T"," ","a",",","\r","\n"," "," ","C","O","U","N","T","(","*",")","\r","\n","F","R","O","M"," ","t","\r","\n","W","H","E","R","E"," ","a"," ",">"," ","1","\r","\n","G","R","O","U","P"," ","B","Y"," ","a"," ","W","I","T","H"," ","R","O","L","L","U","P","\r","\n","H","A","V","I","N","G"," ","C","O","U","N","T","(","*",")"," ",">"," ","1","\r","\n","O","R","D","E","R"," ","B","Y"," ","a","\r","\n","L","I","M","I","T"," ","5">>,
     <<"s","e","l","e","c","t"," ","a",",","\n"," "," ","(","S","E","L","E","C","T"," ","M","A","X","(","c",")","\n"," "," "," ","f","r","o","m"," ","u",")"," ","m","\n","f","r","o","m"," ","t","\n","w","h","e","r","e"," ","a"," ","="," ","1","\n","o","r","d","e","r"," ","b","y"," ","a">>,
     <<"S","E","L","E","C","T"," ","a","\r","\r","F","R","O","M","\t"," "," ","t">>}

Statements ==
    JoinStatements \cup SelectStatements \cup CreateStatements
    \cup MultiLineStatements

(***************************************************************************)
(* The translator as a state machine: one call after another, each call    *)
(* stepping through the rules, the clean-up, one of the three formatters   *)
(* and the warning.                                                        *)
(***************************************************************************)
Init ==
    /\ mysqlQuery \in Statements
    /\ sqliteQuery = mysqlQuery
    /\ pc = "mappings"
    /\ ruleIdx = 1
    /\ lines = << >>
    /\ lineIdx = 1
    /\ indentLevel = 0
    /\ result = << >>
    /\ call = 1

\* one iteration of functionMappings.forEach
ApplyMapping ==
    /\ pc = "mappings"
    /\ ruleIdx <= Len(functionMappings)
    /\ sqliteQuery' = replace(sqliteQuery, functionMappings[ruleIdx])
    /\ ruleIdx' = ruleIdx + 1
    /\ pc' = IF ruleIdx = Len(functionMappings) THEN "post" ELSE "mappings"
    /\ UNCHANGED <<mysqlQuery, lines, lineIdx, indentLevel, result, call>>

PostProcessing ==
    /\ pc = "post"
    /\ sqliteQuery' = PostProcess(sqliteQuery)
    /\ pc' = "format"
    /\ UNCHANGED <<mysqlQuery, ruleIdx, lines, lineIdx, indentLevel, result, call>>

FormatCreateTable ==
    /\ pc = "format"
    /\ IsCreateTable(sqliteQuery)
    /\ LET r == formatCreateTable(sqliteQuery)
       IN  IF r.threw
           THEN pc' = "threw" /\ UNCHANGED sqliteQuery
           ELSE pc' = "rollup" /\ sqliteQuery' = r.value
    /\ UNCHANGED <<mysqlQuery, ruleIdx, lines, lineIdx, indentLevel, result, call>>

HandleGroupConcat ==
    /\ pc = "format"
    /\ ~IsCreateTable(sqliteQuery)
    /\ HasGroupConcat(sqliteQuery)
    /\ sqliteQuery' = handleGroupConcat(sqliteQuery)
    /\ pc' = "rollup"
    /\ UNCHANGED <<mysqlQuery, ruleIdx, lines, lineIdx, indentLevel, result, call>>

\* formatSQL, the one-line return
FormatSQLSimple ==
    /\ pc = "format"
    /\ ~IsCreateTable(sqliteQuery)
    /\ ~HasGroupConcat(sqliteQuery)
    /\ IsSimple(sqliteQuery)
    /\ sqliteQuery' = trim(replace(sqliteQuery, SpacesRule))
    /\ pc' = "rollup"
    /\ UNCHANGED <<mysqlQuery, ruleIdx, lines, lineIdx, indentLevel, result, call>>

\* formatSQL, the multi-line path: split, then the loop from level 0
FormatSQLSplit ==
    /\ pc = "format"
    /\ ~IsCreateTable(sqliteQuery)
    /\ ~HasGroupConcat(sqliteQuery)
    /\ ~IsSimple(sqliteQuery)
    /\ lines' = TrimmedLines(sqliteQuery)
    /\ lineIdx' = 1
    /\ indentLevel' = 0
    /\ result' = << >>
    /\ pc' = "formatSQL"
    /\ UNCHANGED <<mysqlQuery, sqliteQuery, ruleIdx, call>>

\* one iteration of formatSQL's loop
FormatSQLLine ==
    /\ pc = "formatSQL"
    /\ lineIdx <= Len(lines)
    /\ result' = Append(result, EmitLine(lines[lineIdx], indentLevel))
    /\ indentLevel' = LevelAfter(lines[lineIdx], indentLevel)
    /\ lineIdx' = lineIdx + 1
    /\ UNCHANGED <<mysqlQuery, sqliteQuery, pc, ruleIdx, lines, call>>

FormatSQLJoin ==
    /\ pc = "formatSQL"
    /\ lineIdx > Len(lines)
    /\ sqliteQuery' = join(result, <<"\n">>)
    /\ pc' = "rollup"
    /\ UNCHANGED <<mysqlQuery, ruleIdx, lines, lineIdx, indentLevel, result, call>>

\* the warning for unsupported features, and the return
Return ==
    /\ pc = "rollup"
    /\ sqliteQuery' = RollupWarning(sqliteQuery)
    /\ pc' = "done"
    /\ UNCHANGED <<mysqlQuery, ruleIdx, lines, lineIdx, indentLevel, result, call>>

\* the caller translates the statement it got back
CallAgain ==
    /\ pc = "done"
    /\ call < MaxCalls
    /\ mysqlQuery' = sqliteQuery
    /\ pc' = "mappings"
    /\ ruleIdx' = 1
    /\ lines' = << >>
    /\ lineIdx' = 1
    /\ indentLevel' = 0
    /\ result' = << >>
    /\ call' = call + 1
    /\ UNCHANGED sqliteQuery

Next ==
    \/ ApplyMapping
    \/ PostProcessing
    \/ FormatCreateTable
    \/ HandleGroupConcat
    \/ FormatSQLSimple
    \/ FormatSQLSplit
    \/ FormatSQLLine
    \/ FormatSQLJoin
    \/ Return
    \/ CallAgain

Spec == Init /\ [][Next]_vars

(***************************************************************************)
(* What the claims speak of.                                               *)
(***************************************************************************)
\* the number of places where p occurs in s
Count(s, p) == Cardinality({i \in 1..Len(s) : HasAt(s, p, i)})

\* s with every run of white space made one space, and trimmed
Normalized(s) ==
    LET keep == {i \in 1..Len(s) :
                    \/ s[i] \notin WhiteSpace
                    \/ /\ i > 1
                       /\ s[i - 1] \notin WhiteSpace
                       /\ \E j \in (i + 1)..Len(s) : s[j] \notin WhiteSpace}
    IN  [k \in 1..Cardinality(keep) |->
            IF s[Nth(keep, k)] \in WhiteSpace THEN " " ELSE s[Nth(keep, k)]]

\* the lines of sql that are not blank
NonBlankLines(sql) ==
    LET raw == split(sql, "\n")
        inked == {i \in 1..Len(raw) : \E j \in 1..Len(raw[i]) : raw[i][j] \notin WhiteSpace}
    IN  [k \in 1..Cardinality(inked) |-> raw[Nth(inked, k)]]

Returned == pc = "done"
Marker == <<"/","*"," ","W","I","T","H"," ","R","O","L","L","U","P"," ","n","o","t"," ","s","u","p","p","o","r","t","e","d"," ","*","/">>

\* the state machine computes the function
StepsAgree ==
    /\ pc = "done" => mysqlToSQLiteParser(mysqlQuery) = [threw |-> FALSE, value |-> sqliteQuery]
    /\ pc = "threw" => mysqlToSQLiteParser(mysqlQuery).threw

(***************************************************************************)
(* C1: every outer-join keyword (LEFT, RIGHT or FULL JOIN, with or without *)
(* OUTER) comes out as exactly LEFT JOIN, a bare JOIN or INNER JOIN as     *)
(* exactly INNER JOIN, and the output never holds LEFT INNER JOIN.         *)
(***************************************************************************)
InnerJoinKeywords == {<<"J","O","I","N">>, <<"I","N","N","E","R"," ","J","O","I","N">>}
NormalizedJoin(j) == IF j \in InnerJoinKeywords THEN <<"I","N","N","E","R"," ","J","O","I","N">> ELSE <<"L","E","F","T"," ","J","O","I","N">>
C1_JoinsNormalized ==
    Returned =>
        /\ \A j \in JoinKeywords :
              mysqlQuery = JoinStatement(j)
                  => sqliteQuery = JoinStatement(NormalizedJoin(j))
        /\ ~includes(sqliteQuery, <<"L","E","F","T"," ","I","N","N","E","R"," ","J","O","I","N">>)

(***************************************************************************)
(* C2: two table definitions that differ only in writing AUTO_INCREMENT    *)
(* PRIMARY KEY or PRIMARY KEY AUTO_INCREMENT (in either letter case)       *)
(* translate to the same text, which holds PRIMARY KEY AUTOINCREMENT and   *)
(* PRIMARY KEY once only.  Stated of the definitions written one column    *)
(* per line, which the formatter renders in full.                          *)
(***************************************************************************)
C2_AutoIncrementOrderIndependent ==
    Returned =>
        \A pr \in AutoIncrementPairs, n \in 1..MaxColumns :
            LET first == MultiLine(<<"C","R","E","A","T","E"," ","T","A","B","L","E"," ","u","s","e","r","s">>,
                                   ColumnsOf(AutoIncrementId(pr[1]), n), <<")",";">>)
                second == MultiLine(<<"C","R","E","A","T","E"," ","T","A","B","L","E"," ","u","s","e","r","s">>,
                                    ColumnsOf(AutoIncrementId(pr[2]), n), <<")",";">>)
            IN  mysqlQuery \in {first, second} =>
                    /\ mysqlToSQLiteParser(first) = mysqlToSQLiteParser(second)
                    /\ includes(sqliteQuery, <<"P","R","I","M","A","R","Y"," ","K","E","Y"," ","A","U","T","O","I","N","C","R","E","M","E","N","T">>)
                    /\ Count(sqliteQuery, <<"P","R","I","M","A","R","Y"," ","K","E","Y">>) = 1

(***************************************************************************)
(* C3: the translator never raises, whatever the statement.                *)
(***************************************************************************)
C3_NeverRaises == pc # "threw"

(***************************************************************************)
(* C4: a call CONCAT(a1, ..., an) comes out as the same n arguments in the *)
(* same order joined by exactly n-1 operators ||, and no CONCAT is left;   *)
(* an argument may be a literal holding a comma, or a nested call.         *)
(***************************************************************************)
C4_ConcatBecomesOperators ==
    Returned =>
        \A args \in ConcatArgLists :
            mysqlQuery = SelectStatement(ConcatCall(args), << >>) =>
                /\ ~includes(sqliteQuery, <<"C","O","N","C","A","T">>)
                /\ Count(sqliteQuery, <<"|","|">>) = Len(args) - 1
                /\ includes(sqliteQuery, join(args, <<" ","|","|"," ">>))

(***************************************************************************)
(* C5: a table definition of N columns, on one line or one column per      *)
(* line, in either letter case of the header, comes out as the header      *)
(* line, N indented lines holding the N definitions in order, with a comma *)
(* after all but the last, and a closing line.                             *)
(***************************************************************************)
Rendered(out, cols) ==
    LET ls == split(out, "\n")
    IN  /\ Len(ls) = Len(cols) + 2
        /\ toUpperCase(ls[1]) = <<"C","R","E","A","T","E"," ","T","A","B","L","E"," ","U","S","E","R","S"," ","(">>
        /\ \A k \in 1..Len(cols) :
              ls[k + 1] = <<" "," "," "," ">> \o cols[k] \o (IF k < Len(cols) THEN <<",">> ELSE << >>)
        /\ trim(ls[Len(cols) + 2]) = <<")",";">>
C5_TableDefinitionRendered ==
    Returned =>
        \A h \in PlainHeaders, n \in 1..MaxColumns, c \in Closings :
            mysqlQuery \in {OneLine(h, ColumnsOf(PlainId, n), c),
                            MultiLine(h, ColumnsOf(PlainId, n), c)}
                => Rendered(sqliteQuery, ColumnsOf(PlainId, n))

(***************************************************************************)
(* C6: a statement holding WITH ROLLUP is still translated, and its        *)
(* translation holds the not-supported marker and no WITH ROLLUP outside   *)
(* a marker.                                                               *)
(***************************************************************************)
WithoutMarkers(s) == replace(s, Rule(<<Lit(Marker)>>, FALSE, << >>))
C6_RollupMarked ==
    includes(mysqlQuery, <<"W","I","T","H"," ","R","O","L","L","U","P">>) =>
        /\ pc # "threw"
        /\ Returned =>
              /\ includes(sqliteQuery, Marker)
              /\ ~includes(WithoutMarkers(sqliteQuery), <<"W","I","T","H"," ","R","O","L","L","U","P">>)

(***************************************************************************)
(* C7: a translation that holds target forms only (no construct of the     *)
(* source dialect) is translated to itself.                                *)
(***************************************************************************)
SourceConstructs ==
    {<<"C","O","N","C","A","T","(">>, <<"S","U","B","S","T","R","I","N","G","(">>, <<"D","A","T","E","_","A","D","D","(">>, <<"D","A","T","E","_","S","U","B","(">>, <<"D","A","T","E","D","I","F","F","(">>, <<"Y","E","A","R","(">>,
     <<"M","O","N","T","H","(">>, <<"D","A","Y","(">>, <<"N","O","W","(",")">>, <<"C","E","I","L","(">>, <<"F","L","O","O","R","(">>, <<"M","O","D","(">>, <<"R","A","N","D","(",")">>,
     <<"I","F","N","U","L","L","(">>, <<"I","F","(">>, <<"N","U","L","L","I","F","(">>, <<"I","N","T","(">>, <<"C","H","A","R","(">>, <<"T","E","X","T","(">>, <<"D","E","C","I","M","A","L","(">>,
     <<"F","L","O","A","T","(">>, <<"D","O","U","B","L","E","(">>, <<"T","I","M","E","S","T","A","M","P">>, <<"B","I","N","A","R","Y">>, <<"R","I","G","H","T"," ">>, <<"F","U","L","L"," ">>, <<"O","U","T","E","R"," ">>,
     <<"A","U","T","O","_","I","N","C","R","E","M","E","N","T">>, <<"E","N","G","I","N","E","=">>, <<"C","H","A","R","S","E","T","=">>, <<"C","O","L","L","A","T","E","=">>, <<"W","I","T","H"," ","R","O","L","L","U","P">>}
OnlyTargetForms(s) ==
    LET u == toUpperCase(WithoutMarkers(s))
    IN  /\ \A c \in SourceConstructs : ~includes(u, c)
        /\ Count(u, <<"J","O","I","N">>) = Count(u, <<"L","E","F","T"," ","J","O","I","N">>) + Count(u, <<"I","N","N","E","R"," ","J","O","I","N">>)
C7_Idempotent ==
    (Returned /\ call > 1 /\ OnlyTargetForms(mysqlQuery)) => sqliteQuery = mysqlQuery

(***************************************************************************)
(* C8: the call GROUP_CONCAT(DISTINCT a.b) is still in the translation,    *)
(* with its DISTINCT and its dot-qualified argument.                       *)
(***************************************************************************)
C8_GroupConcatPreserved ==
    (Returned /\ includes(mysqlQuery, <<"G","R","O","U","P","_","C","O","N","C","A","T","(","D","I","S","T","I","N","C","T"," ","a",".","b",")">>))
        => includes(sqliteQuery, <<"G","R","O","U","P","_","C","O","N","C","A","T","(","D","I","S","T","I","N","C","T"," ","a",".","b",")">>)

(***************************************************************************)
(* C9: a statement that holds none of the mapped keywords as a whole word  *)
(* is translated to itself, up to white space.                             *)
(***************************************************************************)
MappedKeywords ==
    {<<"C","O","N","C","A","T">>, <<"S","U","B","S","T","R","I","N","G">>, <<"L","E","N","G","T","H">>, <<"U","P","P","E","R">>, <<"L","O","W","E","R">>, <<"T","R","I","M">>, <<"L","T","R","I","M">>,
     <<"R","T","R","I","M">>, <<"R","E","P","L","A","C","E">>, <<"D","A","T","E","_","A","D","D">>, <<"D","A","T","E","_","S","U","B">>, <<"D","A","T","E","D","I","F","F">>, <<"Y","E","A","R">>, <<"M","O","N","T","H">>,
     <<"D","A","Y">>, <<"N","O","W">>, <<"C","E","I","L">>, <<"F","L","O","O","R">>, <<"P","O","W">>, <<"A","B","S">>, <<"S","Q","R","T">>, <<"M","O","D">>, <<"R","A","N","D">>,
     <<"I","F","N","U","L","L">>, <<"I","F">>, <<"N","U","L","L","I","F">>, <<"I","N","T">>, <<"T","I","N","Y","I","N","T">>, <<"S","M","A","L","L","I","N","T">>, <<"M","E","D","I","U","M","I","N","T">>,
     <<"B","I","G","I","N","T">>, <<"C","H","A","R">>, <<"V","A","R","C","H","A","R">>, <<"T","E","X","T">>, <<"D","E","C","I","M","A","L">>, <<"F","L","O","A","T">>, <<"D","O","U","B","L","E">>,
     <<"T","I","M","E","S","T","A","M","P">>, <<"B","I","N","A","R","Y">>, <<"J","O","I","N">>, <<"A","U","T","O","_","I","N","C","R","E","M","E","N","T">>, <<"A","U","T","O","I","N","C","R","E","M","E","N","T">>,
     <<"E","N","G","I","N","E">>, <<"C","H","A","R","S","E","T">>, <<"C","O","L","L","A","T","E">>, <<"G","R","O","U","P","_","C","O","N","C","A","T">>, <<"R","O","L","L","U","P">>, <<"C","R","E","A","T","E">>}
HasMappedKeyword(s) ==
    \E kw \in MappedKeywords, i \in 1..Len(s) :
        /\ HasAt(toUpperCase(s), kw, i)
        /\ ~IsWordAt(s, i - 1)
        /\ ~IsWordAt(s, i + Len(kw))
C9_NoMappedKeywordNoChange ==
    (Returned /\ ~HasMappedKeyword(mysqlQuery))
        => Normalized(sqliteQuery) = Normalized(mysqlQuery)

(***************************************************************************)
(* C10: in formatSQL's loop the indentation level is 0 or 1; a line that   *)
(* begins with a clause keyword is emitted at column zero and leaves the   *)
(* level at 0; a line after a SELECT line and before the next clause line  *)
(* is emitted behind exactly four spaces; the other lines are emitted as   *)
(* they are; the lines emitted are the lines of the statement that are not *)
(* blank, in order.  A statement of one line without "case when" and       *)
(* "group by" comes out with its white space runs made single spaces, and  *)
(* trimmed.                                                                *)
(***************************************************************************)
\* line k follows a SELECT line with no clause line in between or at k
InSelectBody(ls, k) ==
    \E j \in 1..(k - 1) :
        /\ IsSelectLine(ls[j])
        /\ \A i \in (j + 1)..k : ~IsClauseLine(ls[i])
C10_Lines ==
    /\ indentLevel \in {0, 1}
    /\ pc = "formatSQL" =>
          /\ Len(result) = lineIdx - 1
          /\ \A k \in 1..Len(result) :
                /\ IsClauseLine(lines[k]) => result[k] = lines[k]
                /\ InSelectBody(lines, k) => result[k] = <<" "," "," "," ">> \o lines[k]
                /\ ~InSelectBody(lines, k) => result[k] = lines[k]
          /\ lineIdx > 1 =>
                /\ IsClauseLine(lines[lineIdx - 1]) => indentLevel = 0
                /\ IsSelectLine(lines[lineIdx - 1]) => indentLevel = 1
          /\ lineIdx > Len(lines) =>
                /\ Len(result) = Len(NonBlankLines(sqliteQuery))
                /\ \A k \in 1..Len(result) :
                      trim(result[k]) = trim(NonBlankLines(sqliteQuery)[k])
C10_OneLine ==
    (pc = "format" /\ ~IsCreateTable(sqliteQuery) /\ ~HasGroupConcat(sqliteQuery)
        /\ IsSimple(sqliteQuery))
        => (pc' = "rollup" /\ sqliteQuery' = Normalized(sqliteQuery))
C10_PlainFormatting == []C10_Lines /\ [][C10_OneLine]_vars
\* a SELECT line, a line of its body behind four spaces, a clause line at
\* column zero: all three emitted
C10_Witness ==
    /\ pc = "formatSQL"
    /\ lineIdx > Len(lines)
    /\ \E k \in 1..(Len(lines) - 2) :
          /\ IsSelectLine(lines[k])
          /\ ~IsClauseLine(lines[k + 1])
          /\ IsClauseLine(lines[k + 2])
          /\ result[k + 1] = <<" "," "," "," ">> \o lines[k + 1]
          /\ result[k + 2] = lines[k + 2]
=============================================================================
